---- MODULE Spec2Model ----
(***************************************************************************)
(* The iLert Icinga plugin (ilert-icinga.py): a directory of event files   *)
(* written by persist_event and drained by flush under an flock on         *)
(* <dir>/lockfile.  Every OS process is one invocation of main(); several  *)
(* invocations run at overlapping times and share only the directory.      *)
(***************************************************************************)
EXTENDS Integers, Sequences, FiniteSets, TLC

\* ------------------------------------------------------------- bounds
\* invocations of main() that get to persist_event or lock_and_flush
MaxRuns == 2
\* persist_event calls in one behaviour (size of the identifier space)
MaxEvents == 2

\* process slots: at most this many invocations overlap
Procs == {1, 2}
Uids == 1..MaxEvents

\* ------------------------------------------------------------- inputs
Modes == {"icinga", "save", "cron", "send"}
NoKey == "None"
ApiKeys == {NoKey, "key"}
Payloads == {"up", "down", "unreachable"}

\* what urlopen can do: return (a 2xx answer), raise HTTPError with a status,
\* raise URLError, raise anything else
HttpErrorCodes == {400, 429, 499, 500}
Response(c) == [kind |-> "response", code |-> c]
HTTPError(c) == [kind |-> "HTTPError", code |-> c]
URLError == [kind |-> "URLError", code |-> 0]
OtherException == [kind |-> "Exception", code |-> 0]
NoOutcome == [kind |-> "none", code |-> 0]
Outcomes == {Response(200)} \cup {HTTPError(c) : c \in HttpErrorCodes}
                \cup {URLError, OtherException}

\* ------------------------------------------------------------- state
VARIABLES
    files,      \* the event directory: file name -> file
    clock,      \* the filesystem's current timestamp
    lock,       \* processes holding the flock on the lock file
    runs,       \* invocations started so far
    persisted,  \* uid -> the document persist_event was called to store
    pc,         \* per process: position in main()
    uid,        \* per process: persist_event's uid
    events,     \* per process: flush's sorted listing
    idx,        \* per process: position of flush's loop in events
    xml_doc,    \* per process: flush's document read from the current file
    outcome,    \* per process: result of the current urlopen
    raised,     \* per process: what ends the process ("none": nothing so far)
    sent,       \* per process: transmissions of the current flush, in order
    retained,   \* event files some flush has kept after a transient failure
    acked,      \* event files still there whose transmission got a 2xx answer
                \* in a process that has not ended since
    attempted,  \* uids of running invocations whose event has been transmitted
    xml_in,     \* create_xml alone: its arguments
    xml_out,    \* create_xml alone: the document it returned
    xml_back    \* create_xml alone: what decoding the document gives

queuevars == <<files, clock, lock, runs, persisted, pc, uid, events, idx,
               xml_doc, outcome, raised, sent, retained, acked, attempted>>
xmlvars == <<xml_in, xml_out, xml_back>>
vars == <<queuevars, xmlvars>>

\* ------------------------------------------------------------- files
\* "%s.ilert" % uid, "%s.tmp" % uid, "lockfile": a stem and a suffix
PermanentSuffix == ".ilert"
TemporarySuffix == ".tmp"
Filename(u) == [stem |-> u, suffix |-> PermanentSuffix]
FilenameTmpIsPermanent(u) == Filename(u)
FilenameTmp(u) == [stem |-> u, suffix |-> TemporarySuffix]
LockFilename == [stem |-> 0, suffix |-> ""]
Names == {Filename(u) : u \in Uids} \cup {FilenameTmp(u) : u \in Uids}
            \cup {LockFilename}

NoFile == [present |-> FALSE, content |-> <<>>, mtime |-> 0]
File(c, t) == [present |-> TRUE, content |-> c, mtime |-> t]

\* create_xml, as the pieces the document is written in: the header up to the
\* API key, then the payload entries and the end tags
create_xml(apikey, payload) == <<apikey, payload>>
NoDoc == <<>>
NoEvent == [apikey |-> <<>>, payload |-> <<>>]
NotDecoded == [state |-> "none", apikey |-> <<>>, payload |-> <<>>]

\* uuid.uuid4(): an identifier no earlier call returned.  The code only ever
\* compares identifiers for equality, so the least unused one stands for it.
uuid4Colliding(used) == Uids
uuid4(used) == {u \in Uids \ used : \A v \in Uids \ used : u <= v}

UsedUids == {u \in Uids : persisted[u] # NoDoc}

\* the payload of the next event.  Payloads are only copied and compared and
\* no step looks into one, so events with different payloads are the general
\* case: the next event gets a payload no event had so far, while there is one.
PayloadChoices ==
    LET fresh == {x \in Payloads : \A u \in UsedUids : persisted[u][2] # x}
    IN IF fresh = {} THEN Payloads ELSE {CHOOSE x \in fresh : TRUE}

\* ------------------------------------------------------------- flush helpers
endswithAnything(n) == TRUE
endswithIlert(n) == n.suffix = PermanentSuffix

listdirEmpty == {}
listdir == {n \in Names : files[n].present}

Perms(S) == {s \in [1..Cardinality(S) -> S] :
                \A i, j \in 1..Cardinality(S) : i # j => s[i] # s[j]}

\* sorted(events, key=getmtime): the listing order of equal keys is arbitrary
Unsorted(S) == Perms(S)
sorted(S) == {s \in Perms(S) :
                \A i, j \in 1..Cardinality(S) :
                    i < j => files[s[i]].mtime <= files[s[j]].mtime}

\* the dispositions that call os.remove(event)
RemovesRejectedOnly(o) ==
    o.kind = "HTTPError" /\ o.code # 429 /\ 400 <= o.code /\ o.code <= 499
RemovesAny4xx(o) ==
    \/ o.kind = "response"
    \/ o.kind = "HTTPError" /\ 400 <= o.code /\ o.code <= 499
Removes(o) ==
    \/ o.kind = "response"
    \/ o.kind = "HTTPError" /\ o.code # 429 /\ 400 <= o.code /\ o.code <= 499

\* the dispositions that call e.read()
ReadsBody(o) == o.kind = "HTTPError"

\* the level of the log() call in the clause that handles outcome o; the clause
\* for the other HTTP status codes writes to sys.stderr and does not call log()
NoLog == "none"
LogLevel(o) ==
    IF o.kind = "response" THEN "INFO"
    ELSE IF o.kind = "HTTPError"
         THEN IF o.code = 429 THEN "WARN"
              ELSE IF 400 <= o.code /\ o.code <= 499 THEN "WARN"
              ELSE NoLog
    ELSE "ERROR"

\* log(level, message): where the entry goes, by DOCKER_MODE
log(level, docker_mode) ==
    IF docker_mode
    THEN IF level = "ERROR" THEN "stderr" ELSE "stdout"
    ELSE IF level = "ERROR" THEN "LOG_ERR"
         ELSE IF level = "WARN" THEN "LOG_WARNING"
         ELSE "LOG_INFO"

\* flock(LOCK_EX) returns only when no other open file holds the lock
LockShared(holders) == TRUE
LockFree(holders) == holders = {}

\* lockfile.close() in the finally clause
CloseKeepsOnRaise(holders, p, r) == IF r = "flush" THEN holders ELSE holders \ {p}
lockfileClose(holders, p, r) == holders \ {p}

\* ------------------------------------------------------------- create_xml
\* create_xml character by character: a string is a sequence of characters
MaxLen == 2        \* length of the API key and of an entry's key
MaxValueLen == 1   \* length of an entry's value
MaxEntries == 1    \* entries of the payload
Chars == {"a", "<", ">", "&", "\"", "'"}
Strings(n) == UNION {[1..k -> Chars] : k \in 0..n}
Entries == {[key |-> k, value |-> v] : k \in Strings(MaxLen), v \in Strings(MaxValueLen)}
PayloadMaps == UNION {[1..k -> Entries] : k \in 0..MaxEntries}

\* the literals of create_xml
XmlDeclaration ==
    <<"<", "?", "x", "m", "l", " ", "v", "e", "r", "s", "i", "o", "n", "=",
      "\"", "1", ".", "0", "\"", " ", "e", "n", "c", "o", "d", "i", "n",
      "g", "=", "\"", "U", "T", "F", "-", "8", "\"", " ", "s", "t", "a",
      "n", "d", "a", "l", "o", "n", "e", "=", "\"", "y", "e", "s", "\"",
      "?", ">">>
EventApiKey ==
    <<"<", "e", "v", "e", "n", "t", ">", "<", "a", "p", "i", "K", "e", "y",
      ">">>
ApiKeyPayload ==
    <<"<", "/", "a", "p", "i", "K", "e", "y", ">", "<", "p", "a", "y", "l",
      "o", "a", "d", ">">>
EntryKey ==
    <<"<", "e", "n", "t", "r", "y", " ", "k", "e", "y", "=">>
EntryEnd ==
    <<"<", "/", "e", "n", "t", "r", "y", ">">>
PayloadEvent ==
    <<"<", "/", "p", "a", "y", "l", "o", "a", "d", ">", "<", "/", "e", "v",
      "e", "n", "t", ">">>

\* str.replace(old, new)
RECURSIVE replace(_, _, _)
replace(data, old, new) ==
    IF data = <<>> THEN <<>>
    ELSE (IF Head(data) = old THEN new ELSE <<Head(data)>>)
            \o replace(Tail(data), old, new)

\* xml.sax.saxutils.escape: "&" first, then ">" and "<"
escape(data) ==
    replace(replace(replace(data, "&", <<"&", "a", "m", "p", ";">>),
                    ">", <<"&", "g", "t", ";">>),
            "<", <<"&", "l", "t", ";">>)

\* xml.sax.saxutils.quoteattr: escape, then the quotes that fit the data
quoteattr(data) ==
    LET d == escape(data)
        has(c) == \E i \in 1..Len(d) : d[i] = c
    IN IF has("\"")
       THEN IF has("'")
            THEN <<"\"">> \o replace(d, "\"", <<"&", "q", "u", "o", "t", ";">>)
                     \o <<"\"">>
            ELSE <<"'">> \o d \o <<"'">>
       ELSE <<"\"">> \o d \o <<"\"">>

\* for entry in payload: xml_doc += "<entry key=%s>%s</entry>" % (...)
RECURSIVE xml_entries(_)
xml_entries(payload) ==
    IF payload = <<>> THEN <<>>
    ELSE EntryKey \o quoteattr(Head(payload).key) \o <<">">>
            \o escape(Head(payload).value) \o EntryEnd
            \o xml_entries(Tail(payload))

\* create_xml(apikey, payload) -> xml_doc; the API key goes in as it is
create_xml_doc(apikey, payload) ==
    XmlDeclaration \o EventApiKey \o apikey \o ApiKeyPayload
        \o xml_entries(payload) \o PayloadEvent

\* ------------------------------------------------------------- Init
QueueInit ==
    /\ files = [n \in Names |-> NoFile]
    /\ clock = 1
    /\ lock = {}
    /\ runs = 0
    /\ persisted = [u \in Uids |-> NoDoc]
    /\ pc = [p \in Procs |-> "idle"]
    /\ uid = [p \in Procs |-> 0]
    /\ events = [p \in Procs |-> <<>>]
    /\ idx = [p \in Procs |-> 0]
    /\ xml_doc = [p \in Procs |-> NoDoc]
    /\ outcome = [p \in Procs |-> NoOutcome]
    /\ raised = [p \in Procs |-> "none"]
    /\ sent = [p \in Procs |-> <<>>]
    /\ retained = {}
    /\ acked = {}
    /\ attempted = {}

\* no process runs; create_xml is looked at only inside persist_event
Init ==
    /\ QueueInit
    /\ xml_in = NoEvent
    /\ xml_out = NoDoc
    /\ xml_back = NotDecoded

\* the exit status of a process that ends by itself: exit(0) at the end of
\* main, 2 from parser.error, 1 from exit(1) in persist_event and from an
\* exception that nothing catches
ExitStatus(r) == IF r = "none" THEN 0 ELSE IF r = "nokey" THEN 2 ELSE 1

\* the process ends with status `code`: its locals go, its flock (if any) is
\* dropped by the kernel
Exit(p, code) ==
    /\ pc' = [pc EXCEPT ![p] = "idle"]
    /\ lock' = lock \ {p}
    /\ uid' = [uid EXCEPT ![p] = 0]
    /\ events' = [events EXCEPT ![p] = <<>>]
    /\ idx' = [idx EXCEPT ![p] = 0]
    /\ xml_doc' = [xml_doc EXCEPT ![p] = NoDoc]
    /\ outcome' = [outcome EXCEPT ![p] = NoOutcome]
    /\ raised' = [raised EXCEPT ![p] = "none"]
    /\ sent' = [sent EXCEPT ![p] = <<>>]
    /\ attempted' = attempted \ {uid[p]}

\* ------------------------------------------------------------- main
\* a new invocation takes the lowest free process slot (slots are interchangeable)
FreeSlot(p) == pc[p] = "idle" /\ \A q \in Procs : q < p => pc[q] # "idle"

\* main() in mode save/icinga with an API key: persist_event up to uuid4()
StartSave(p) ==
    /\ FreeSlot(p)
    /\ runs < MaxRuns
    /\ uuid4(UsedUids) # {}
    /\ \E mode \in {"icinga", "save"}, apikey \in ApiKeys \ {NoKey},
          payload \in PayloadChoices, u \in uuid4(UsedUids) :
        /\ persisted' = [persisted EXCEPT ![u] = create_xml(apikey, payload)]
        /\ uid' = [uid EXCEPT ![p] = u]
    /\ runs' = runs + 1
    /\ pc' = [pc EXCEPT ![p] = "open"]
    /\ UNCHANGED <<files, clock, lock, events, idx, xml_doc, outcome, raised,
                   sent, retained>>
    /\ UNCHANGED <<acked, attempted, xmlvars>>

\* main() in mode save/icinga without an API key: parser.error ends the process
\* before persist_event, nothing of it stays
StartNoKey(p) ==
    /\ FreeSlot(p)
    /\ \E mode \in {"icinga", "save"}, apikey \in {NoKey} :
          Exit(p, ExitStatus("nokey"))
    /\ UNCHANGED <<files, clock, runs, persisted, retained>>
    /\ UNCHANGED <<acked, xmlvars>>

\* main() in mode cron/send: lock_and_flush alone
StartSend(p) ==
    /\ FreeSlot(p)
    /\ runs < MaxRuns
    /\ \E mode \in {"cron", "send"} : pc' = [pc EXCEPT ![p] = "lockopen"]
    /\ runs' = runs + 1
    /\ UNCHANGED <<files, clock, lock, persisted, uid, events, idx, xml_doc,
                   outcome, raised, sent, retained>>
    /\ UNCHANGED <<acked, attempted, xmlvars>>

\* ------------------------------------------------------------- persist_event
\* io.open(file_path_tmp, mode="w"): creates or truncates the temporary file
Open(p) ==
    /\ pc[p] = "open"
    /\ files' = [files EXCEPT ![FilenameTmp(uid[p])] = File(<<>>, 0)]
    /\ pc' = [pc EXCEPT ![p] = "write"]
    /\ UNCHANGED <<clock, lock, runs, persisted, uid, events, idx, xml_doc,
                   outcome, raised, sent, retained>>
    /\ UNCHANGED <<acked, attempted, xmlvars>>

\* the timestamps the write that completes a document can get: the current
\* one, or a later one when the clock has ticked.  A tick that no file can
\* witness (no file carries the current timestamp) is not counted.
Timestamps ==
    IF \E n \in Names : files[n].present /\ files[n].mtime = clock
    THEN {clock, clock + 1} ELSE {clock}

\* f.write(xml_doc); f.flush(): one write call stores the next k pieces; the
\* modification time that counts is that of the last write
Write(p) ==
    /\ pc[p] = "write"
    /\ LET name == FilenameTmp(uid[p])
           doc == persisted[uid[p]]
           have == Len(files[name].content)
       IN \E k \in 1..(Len(doc) - have) :
            IF have + k < Len(doc)
            THEN /\ files' = [files EXCEPT ![name] = File(SubSeq(doc, 1, have + k), 0)]
                 /\ UNCHANGED <<clock, pc>>
            ELSE \E t \in Timestamps :
                 /\ files' = [files EXCEPT ![name] = File(doc, t)]
                 /\ clock' = t
                 /\ pc' = [pc EXCEPT ![p] = "rename"]
    /\ UNCHANGED <<lock, runs, persisted, uid, events, idx, xml_doc, outcome,
                   raised, sent, retained>>
    /\ UNCHANGED <<acked, attempted, xmlvars>>

\* os.rename(file_path_tmp, file_path)
Rename(p) ==
    /\ pc[p] = "rename"
    /\ files' = [files EXCEPT ![FilenameTmp(uid[p])] = NoFile,
                              ![Filename(uid[p])] = files[FilenameTmp(uid[p])]]
    /\ pc' = [pc EXCEPT ![p] = "lockopen"]
    /\ UNCHANGED <<clock, lock, runs, persisted, uid, events, idx, xml_doc,
                   outcome, raised, sent, retained>>
    /\ UNCHANGED <<acked, attempted, xmlvars>>

\* where control goes from the except clause of persist_event: exit(1)
OnStoreErrorGoesOn == "lockopen"
OnStoreError == "exit"

\* except Exception: log, exit(1) -- open, write, flush or rename failed
StoreError(p) ==
    /\ pc[p] \in {"open", "write", "rename"}
    /\ raised' = [raised EXCEPT ![p] = "store"]
    /\ pc' = [pc EXCEPT ![p] = OnStoreError]
    /\ UNCHANGED <<files, clock, lock, runs, persisted, uid, events, idx,
                   xml_doc, outcome, sent, retained>>
    /\ UNCHANGED <<acked, attempted, xmlvars>>

\* ------------------------------------------------------------- lock_and_flush
\* lockfile = open(lock_filename, "w")
LockOpen(p) ==
    /\ pc[p] = "lockopen"
    /\ files' = [files EXCEPT ![LockFilename] = File(<<>>, 0)]
    /\ pc' = [pc EXCEPT ![p] = "flock"]
    /\ UNCHANGED <<clock, lock, runs, persisted, uid, events, idx, xml_doc,
                   outcome, raised, sent, retained>>
    /\ UNCHANGED <<acked, attempted, xmlvars>>

\* open(lock_filename, "w") raises: nothing catches it
LockOpenFails(p) ==
    /\ pc[p] = "lockopen"
    /\ Exit(p, ExitStatus("lockopen"))
    /\ UNCHANGED <<files, clock, runs, persisted, retained>>
    /\ UNCHANGED <<acked, xmlvars>>

\* fcntl.flock(lockfile.fileno(), fcntl.LOCK_EX) returns
Flock(p) ==
    /\ pc[p] = "flock"
    /\ LockFree(lock \ {p})
    /\ lock' = lock \cup {p}
    /\ pc' = [pc EXCEPT ![p] = "list"]
    /\ UNCHANGED <<files, clock, runs, persisted, uid, events, idx, xml_doc,
                   outcome, raised, sent, retained>>
    /\ UNCHANGED <<acked, attempted, xmlvars>>

\* fcntl.flock raises: on to the finally clause
FlockRaises(p) ==
    /\ pc[p] = "flock"
    /\ raised' = [raised EXCEPT ![p] = "flock"]
    /\ pc' = [pc EXCEPT ![p] = "close"]
    /\ UNCHANGED <<files, clock, lock, runs, persisted, uid, events, idx,
                   xml_doc, outcome, sent, retained>>
    /\ UNCHANGED <<acked, attempted, xmlvars>>

\* ------------------------------------------------------------- flush
\* events = sorted(filter(endswith(".ilert"), listdir(directory)), key=getmtime)
List(p) ==
    /\ pc[p] = "list"
    /\ \E s \in sorted({n \in listdir : endswithIlert(n)}) :
        events' = [events EXCEPT ![p] = s]
    /\ idx' = [idx EXCEPT ![p] = 1]
    /\ pc' = [pc EXCEPT ![p] = "read"]
    /\ UNCHANGED <<files, clock, lock, runs, persisted, uid, xml_doc, outcome,
                   raised, sent, retained>>
    /\ UNCHANGED <<acked, attempted, xmlvars>>

\* with open(event, 'r') as f: xml_doc = f.read(); then
\* urllib.request.urlopen(req, timeout=60) returns or raises
Send(p) ==
    /\ pc[p] = "read"
    /\ idx[p] <= Len(events[p])
    /\ files[events[p][idx[p]]].present
    /\ xml_doc' = [xml_doc EXCEPT ![p] = files[events[p][idx[p]]].content]
    /\ \E o \in Outcomes :
        /\ outcome' = [outcome EXCEPT ![p] = o]
        /\ acked' = IF o.kind = "response"
                    THEN acked \cup {events[p][idx[p]]} ELSE acked
    /\ attempted' = IF \E q \in Procs : uid[q] = events[p][idx[p]].stem
                    THEN attempted \cup {events[p][idx[p]].stem} ELSE attempted
    /\ sent' = [sent EXCEPT ![p] = Append(sent[p],
                    [name |-> events[p][idx[p]],
                     mtime |-> files[events[p][idx[p]]].mtime,
                     doc |-> files[events[p][idx[p]]].content])]
    /\ pc' = [pc EXCEPT ![p] = "dispose"]
    /\ UNCHANGED <<files, clock, lock, runs, persisted, uid, events, idx,
                   raised, retained>>
    /\ UNCHANGED xmlvars

\* the for loop goes on with the event after the one at position i
SameEvent(i) == i
NextEvent(i) == i + 1

\* what the except clause around the read does with an IOError
OnIOErrorRaises == "raise"
OnIOError == "continue"

\* except IOError: continue -- the file is gone or cannot be read
ReadFails(p) ==
    /\ pc[p] = "read"
    /\ idx[p] <= Len(events[p])
    /\ IF OnIOError = "continue"
       THEN /\ idx' = [idx EXCEPT ![p] = NextEvent(idx[p])]
            /\ UNCHANGED <<pc, raised>>
       ELSE /\ raised' = [raised EXCEPT ![p] = "flush"]
            /\ pc' = [pc EXCEPT ![p] = "close"]
            /\ UNCHANGED idx
    /\ retained' = retained \ {events[p][idx[p]]}
    /\ UNCHANGED <<files, clock, lock, runs, persisted, uid, events,
                   xml_doc, outcome, sent>>
    /\ UNCHANGED <<acked, attempted, xmlvars>>

\* the except/else clause of the outcome ran to its end: next event
Dispose(p) ==
    /\ pc[p] = "dispose"
    /\ Removes(outcome[p]) => files[events[p][idx[p]]].present
    /\ files' = IF Removes(outcome[p])
                THEN [files EXCEPT ![events[p][idx[p]]] = NoFile]
                ELSE files
    /\ idx' = [idx EXCEPT ![p] = NextEvent(idx[p])]
    /\ outcome' = [outcome EXCEPT ![p] = NoOutcome]
    /\ xml_doc' = [xml_doc EXCEPT ![p] = NoDoc]
    /\ pc' = [pc EXCEPT ![p] = "read"]
    /\ retained' = IF Removes(outcome[p])
                   THEN retained \ {events[p][idx[p]]}
                   ELSE retained \cup {events[p][idx[p]]}
    /\ UNCHANGED <<clock, lock, runs, persisted, uid, events, raised, sent>>
    /\ acked' = IF Removes(outcome[p]) THEN acked \ {events[p][idx[p]]} ELSE acked
    /\ UNCHANGED <<attempted, xmlvars>>

\* e.read() or os.remove(event) raises inside the except/else clause: nothing in
\* flush catches it, the file stays
DisposeRaises(p) ==
    /\ pc[p] = "dispose"
    /\ ReadsBody(outcome[p]) \/ Removes(outcome[p])
    /\ raised' = [raised EXCEPT ![p] = "flush"]
    /\ pc' = [pc EXCEPT ![p] = "close"]
    /\ retained' = IF Removes(outcome[p])
                   THEN retained
                   ELSE retained \cup {events[p][idx[p]]}
    /\ UNCHANGED <<files, clock, lock, runs, persisted, uid, events, idx,
                   xml_doc, outcome, sent>>
    /\ acked' = acked \ {events[p][idx[p]]}
    /\ UNCHANGED <<attempted, xmlvars>>

\* the for loop is exhausted: flush returns
FlushReturn(p) ==
    /\ pc[p] = "read"
    /\ idx[p] > Len(events[p])
    /\ pc' = [pc EXCEPT ![p] = "close"]
    /\ UNCHANGED <<files, clock, lock, runs, persisted, uid, events, idx,
                   xml_doc, outcome, raised, sent, retained>>
    /\ UNCHANGED <<acked, attempted, xmlvars>>

\* finally: lockfile.close()
Close(p) ==
    /\ pc[p] = "close"
    /\ lock' = lockfileClose(lock, p, raised[p])
    /\ pc' = [pc EXCEPT ![p] = "exit"]
    /\ events' = [events EXCEPT ![p] = <<>>]
    /\ idx' = [idx EXCEPT ![p] = 0]
    /\ xml_doc' = [xml_doc EXCEPT ![p] = NoDoc]
    /\ outcome' = [outcome EXCEPT ![p] = NoOutcome]
    /\ sent' = [sent EXCEPT ![p] = <<>>]
    /\ UNCHANGED <<files, clock, runs, persisted, uid, raised, retained>>
    /\ UNCHANGED <<acked, attempted, xmlvars>>

\* the process ends: exit(0) at the end of main, exit(1) of persist_event,
\* parser.error, or the exception that left lock_and_flush
MainExit(p) ==
    /\ pc[p] = "exit"
    /\ Exit(p, ExitStatus(raised[p]))
    /\ UNCHANGED <<files, clock, runs, persisted, retained>>
    /\ UNCHANGED <<acked, xmlvars>>

\* the process is killed at an arbitrary point
Crash(p) ==
    /\ pc[p] # "idle"
    /\ Exit(p, -9)
    /\ retained' = IF pc[p] \in {"read", "dispose"}
                   THEN {n \in retained : \E i \in 1..Len(sent[p]) : sent[p][i].name = n}
                   ELSE retained
    /\ UNCHANGED <<files, clock, runs, persisted>>
    /\ acked' = IF pc[p] = "dispose" THEN acked \ {events[p][idx[p]]} ELSE acked
    /\ UNCHANGED xmlvars

\* ------------------------------------------------------------- specification
Next ==
    \E p \in Procs :
        \/ StartSave(p) \/ StartNoKey(p) \/ StartSend(p)
        \/ Open(p) \/ Write(p) \/ Rename(p) \/ StoreError(p)
        \/ LockOpen(p) \/ LockOpenFails(p) \/ Flock(p) \/ FlockRaises(p)
        \/ List(p) \/ Send(p) \/ ReadFails(p)
        \/ Dispose(p) \/ DisposeRaises(p) \/ FlushReturn(p)
        \/ Close(p) \/ MainExit(p) \/ Crash(p)

Spec == Init /\ [][Next]_vars

\* the steps a started lock_and_flush takes by itself: the process is scheduled
\* and every urlopen returns within its timeout
Step(p) ==
    \/ Flock(p) \/ List(p) \/ Send(p) \/ ReadFails(p) \/ Dispose(p)
    \/ DisposeRaises(p) \/ FlushReturn(p) \/ Close(p) \/ MainExit(p)

LiveSpec == Spec /\ \A p \in Procs : WF_vars(Step(p))

\* main() in mode cron/send, invoked again and again by cron: the
\* invocations after the first MaxRuns, which are not counted
SendAgain(p) ==
    /\ FreeSlot(p)
    /\ runs = MaxRuns
    /\ \E mode \in {"cron", "send"} : pc' = [pc EXCEPT ![p] = "lockopen"]
    /\ UNCHANGED <<files, clock, lock, runs, persisted, uid, events, idx,
                   xml_doc, outcome, raised, sent, retained>>
    /\ UNCHANGED <<acked, attempted, xmlvars>>

\* the invocations and their steps while no process is killed and the lock
\* file can be opened and locked
ServeNext ==
    \E p \in Procs :
        \/ StartSave(p) \/ StartSend(p) \/ SendAgain(p)
        \/ Open(p) \/ Write(p) \/ Rename(p)
        \/ LockOpen(p) \/ Flock(p)
        \/ List(p) \/ Send(p) \/ ReadFails(p)
        \/ Dispose(p) \/ DisposeRaises(p) \/ FlushReturn(p)
        \/ Close(p) \/ MainExit(p)

\* every step a started process takes by itself
Run(p) ==
    \/ Open(p) \/ Write(p) \/ Rename(p) \/ LockOpen(p) \/ Step(p)

\* urlopen gets a 2xx answer or a 4xx other than 429
Answered(p) ==
    /\ Send(p)
    /\ outcome'[p] \in {Response(200)}
            \cup {HTTPError(c) : c \in {c \in HttpErrorCodes : 400 <= c /\ c <= 499 /\ c # 429}}

\* the clause of such an answer runs to its end
Completed(p) ==
    /\ Dispose(p)
    /\ Removes(outcome[p])

\* flush keeps being invoked, every started process is scheduled, and where
\* events keep being transmitted the service again and again gives such an
\* answer and its clause completes
ServeSpec ==
    /\ Init /\ [][ServeNext]_vars
    /\ \A p \in Procs :
        /\ WF_vars(StartSend(p) \/ SendAgain(p))
        /\ WF_vars(Run(p))
        /\ SF_vars(Answered(p))
        /\ SF_vars(Completed(p))

\* ------------------------------------------------------------- create_xml alone
\* decoding a document as XML: character data or an attribute value from
\* position i up to the character `stop`, entity references resolved; a "<"
\* or a "&" that starts no entity reference is not well-formed
ParseFail == [ok |-> FALSE, val |-> <<>>, pos |-> 0]
At(doc, i, lit) ==
    i + Len(lit) - 1 <= Len(doc) /\ SubSeq(doc, i, i + Len(lit) - 1) = lit
XmlEntities ==
    {[ref |-> <<"&", "a", "m", "p", ";">>, char |-> "&"],
     [ref |-> <<"&", "l", "t", ";">>, char |-> "<"],
     [ref |-> <<"&", "g", "t", ";">>, char |-> ">"],
     [ref |-> <<"&", "q", "u", "o", "t", ";">>, char |-> "\""],
     [ref |-> <<"&", "a", "p", "o", "s", ";">>, char |-> "'"]}
RECURSIVE xml_text(_, _, _, _)
xml_text(doc, i, stop, acc) ==
    IF i > Len(doc) THEN ParseFail
    ELSE IF doc[i] = stop THEN [ok |-> TRUE, val |-> acc, pos |-> i]
    ELSE IF doc[i] = "<" THEN ParseFail
    ELSE IF doc[i] = "&"
         THEN IF \E e \in XmlEntities : At(doc, i, e.ref)
              THEN LET e == CHOOSE x \in XmlEntities : At(doc, i, x.ref)
                   IN xml_text(doc, i + Len(e.ref), stop, Append(acc, e.char))
              ELSE ParseFail
    ELSE xml_text(doc, i + 1, stop, Append(acc, doc[i]))

\* the <entry key=...>...</entry> elements from position i on
RECURSIVE xml_payload(_, _, _)
xml_payload(doc, i, acc) ==
    IF ~At(doc, i, EntryKey) THEN [ok |-> TRUE, val |-> acc, pos |-> i]
    ELSE LET q == i + Len(EntryKey)
         IN IF q > Len(doc) \/ doc[q] \notin {"\"", "'"} THEN ParseFail
            ELSE LET k == xml_text(doc, q + 1, doc[q], <<>>)
                 IN IF ~k.ok \/ ~At(doc, k.pos + 1, <<">">>) THEN ParseFail
                    ELSE LET v == xml_text(doc, k.pos + 2, "<", <<>>)
                         IN IF ~v.ok \/ ~At(doc, v.pos, EntryEnd) THEN ParseFail
                            ELSE xml_payload(doc, v.pos + Len(EntryEnd),
                                    Append(acc, [key |-> k.val, value |-> v.val]))

\* the API key and the payload entries of a well-formed event document
NotWellFormed == [state |-> "error", apikey |-> <<>>, payload |-> <<>>]
xml_decode(doc) ==
    LET start == XmlDeclaration \o EventApiKey
    IN IF ~At(doc, 1, start) THEN NotWellFormed
       ELSE LET a == xml_text(doc, Len(start) + 1, "<", <<>>)
            IN IF ~a.ok \/ ~At(doc, a.pos, ApiKeyPayload) THEN NotWellFormed
               ELSE LET es == xml_payload(doc, a.pos + Len(ApiKeyPayload), <<>>)
                    IN IF ~es.ok \/ SubSeq(doc, es.pos, Len(doc)) # PayloadEvent
                       THEN NotWellFormed
                       ELSE [state |-> "ok", apikey |-> a.val, payload |-> es.val]

\* one call of create_xml with any API key and payload
XmlInit ==
    /\ QueueInit
    /\ xml_in \in [apikey : Strings(MaxLen), payload : PayloadMaps]
    /\ xml_out = NoDoc
    /\ xml_back = NotDecoded

\* xml_doc = create_xml(api_key, payload)
Encode ==
    /\ xml_out = NoDoc
    /\ xml_out' = create_xml_doc(xml_in.apikey, xml_in.payload)
    /\ UNCHANGED <<queuevars, xml_in, xml_back>>

\* the receiver decodes the document
Decode ==
    /\ xml_out # NoDoc
    /\ xml_back = NotDecoded
    /\ xml_back' = xml_decode(xml_out)
    /\ UNCHANGED <<queuevars, xml_in, xml_out>>

XmlNext == Encode \/ Decode

XmlSpec == XmlInit /\ [][XmlNext]_vars

\* ------------------------------------------------------------- claims
InFlush(p) == pc[p] \in {"list", "read", "dispose"}
SentNames(p) == {sent[p][i].name : i \in 1..Len(sent[p])}
ListedNames(p) == {events[p][i] : i \in 1..Len(events[p])}

\* a 2xx answer, or an HTTP status in 400..499 other than 429
SuccessOrRejected(o) ==
    \/ o.kind = "response" /\ o.code \in 200..299
    \/ o.kind = "HTTPError" /\ o.code \in (400..499) \ {429}

\* C1: every file with the permanent suffix holds the complete document of the
\* persist_event call that chose its identifier, at every point (crashes of
\* persist_event included); there is never a truncated .ilert file.
C1_PermanentFilesComplete ==
    \A u \in Uids :
        files[Filename(u)].present =>
            /\ persisted[u] # NoDoc
            /\ files[Filename(u)].content = persisted[u]

\* C1 witness: an event file is published while a temporary file that a killed
\* persist_event left truncated lies next to it.
C1_Witness ==
    \E u, v \in Uids :
        /\ files[Filename(u)].present
        /\ files[FilenameTmp(v)].present
        /\ Len(files[FilenameTmp(v)].content) > 0
        /\ Len(files[FilenameTmp(v)].content) < Len(persisted[v])
        /\ \A p \in Procs : uid[p] # v

\* C2: at most one process holds the lock, and at most one is inside flush
\* (listing, transmitting, deleting), and that one holds the lock.
C2_MutualExclusion ==
    /\ Cardinality(lock) <= 1
    /\ \A p, q \in Procs : InFlush(p) /\ InFlush(q) => p = q
    /\ \A p \in Procs : InFlush(p) => p \in lock

\* C2 witness: one process is between a response and its disposition while
\* another is blocked in flock.
C2_Witness ==
    \E p, q \in Procs : p # q /\ pc[p] = "dispose" /\ pc[q] = "flock"

\* C3: an event file disappears only in the step that follows a transmission
\* of that file's contents which ended with 2xx or with a 4xx other than 429.
C3_RemovedOnlyAfterSuccessOrRejection ==
    [][\A n \in Names :
          (n.suffix = PermanentSuffix /\ files[n].present /\ ~files'[n].present)
          => \E p \in Procs :
                /\ pc[p] = "dispose"
                /\ events[p][idx[p]] = n
                /\ xml_doc[p] = files[n].content
                /\ SuccessOrRejected(outcome[p])]_vars

\* C3 witness: the file a flush transmitted last is gone from the directory.
C3_Witness ==
    \E p \in Procs :
        /\ pc[p] = "read"
        /\ Len(sent[p]) > 0
        /\ ~files[sent[p][Len(sent[p])].name].present

\* C4 (as stated): when the handling of a transmitted file ends, the file is
\* absent exactly if the outcome was 2xx or a 4xx other than 429, and is
\* otherwise present with the contents that were transmitted.
C4_AbsentIffSuccessOrRejected ==
    [][\A p \in Procs :
          (pc[p] = "dispose" /\ pc'[p] \in {"read", "close"})
          => LET n == events[p][idx[p]] IN
             /\ ~files'[n].present <=> SuccessOrRejected(outcome[p])
             /\ files'[n].present => files'[n].content = xml_doc[p]]_vars

\* C5: the transmissions of one flush are in ascending order of modification
\* time wherever the modification times differ.
C5_SentInMtimeOrder ==
    \A p \in Procs : \A i, j \in 1..Len(sent[p]) :
        (i < j /\ sent[p][i].mtime # sent[p][j].mtime)
            => sent[p][i].mtime < sent[p][j].mtime

\* C5 witness: a flush has transmitted two files of different modification
\* times.
C5_Witness ==
    \E p \in Procs :
        /\ Len(sent[p]) >= 2
        /\ sent[p][1].mtime # sent[p][2].mtime

\* C6 (as stated): when flush ends, it ends by returning, having gone through
\* its whole listing.
C6_FlushNeverAborts ==
    \A p \in Procs :
        (pc[p] = "close" /\ raised[p] # "flock")
            => raised[p] = "none" /\ idx[p] > Len(events[p])

\* C7 (as stated): when a flush ends, every file an earlier flush kept after a
\* transient failure (and that could be read) has been transmitted by it,
\* with the document persist_event stored, and before every transmitted file
\* of a later modification time.
C7_RetainedResentInOrder ==
    \A p \in Procs :
        (pc[p] = "close" /\ raised[p] # "flock")
            => \A n \in retained :
                 \E i \in 1..Len(sent[p]) :
                    /\ sent[p][i].name = n
                    /\ sent[p][i].doc = persisted[n.stem]
                    /\ \A j \in 1..Len(sent[p]) :
                          sent[p][j].mtime > sent[p][i].mtime => i < j

\* C8: once lock_and_flush is left (by return or by exception) the process no
\* longer holds the lock, only a process inside lock_and_flush holds it, and
\* a process blocked in flock does not stay blocked forever.
C8_LockReleasedAndAcquired ==
    /\ [](\A p \in Procs : p \in lock => pc[p] \in {"list", "read", "dispose", "close"})
    /\ \A p \in Procs : (pc[p] = "flock") ~> (pc[p] # "flock")

\* C8 witness: a lock_and_flush left by an exception of flush has released the
\* lock while another process is blocked in flock.
C8_Witness ==
    \E p, q \in Procs :
        /\ pc[p] = "exit" /\ raised[p] = "flush" /\ p \notin lock
        /\ pc[q] = "flock"

\* C9: whatever persist_event does meanwhile, a flush lists only names with
\* the permanent suffix, transmits only complete documents of persisted
\* events, and the only file a flush changes is the listed file it has just
\* transmitted: temporary files, the lock file and files published after the
\* listing stay as they are.
C9_FlushTouchesOnlyListedEventFiles ==
    /\ [](\A p \in Procs :
            /\ \A n \in ListedNames(p) : n.suffix = PermanentSuffix
            /\ \A i \in 1..Len(sent[p]) :
                  /\ sent[p][i].doc # NoDoc
                  /\ sent[p][i].doc = persisted[sent[p][i].name.stem])
    /\ [][\A p \in Procs : \A n \in Names :
            (InFlush(p) /\ (pc'[p] # pc[p] \/ idx'[p] # idx[p])
                /\ files'[n] # files[n])
            => /\ pc[p] = "dispose"
               /\ n = events[p][idx[p]]
               /\ n.suffix = PermanentSuffix]_vars

\* C9 witness: an event file was published during a flush that has not
\* listed it, while that flush is between a response and its disposition.
C9_Witness ==
    \E p \in Procs, u \in Uids :
        /\ pc[p] = "dispose"
        /\ files[Filename(u)].present
        /\ Filename(u) \notin ListedNames(p)

\* C10: two persist_event calls never share an identifier, hence neither the
\* temporary nor the permanent name: a call's identifier was never used, its
\* open creates a new file and its rename never replaces a file.
C10_DistinctFileNames ==
    /\ [](\A p, q \in Procs : (p # q /\ uid[p] # 0) => uid[p] # uid[q])
    /\ [][\A p \in Procs :
            /\ (uid'[p] # uid[p] /\ uid'[p] # 0) => persisted[uid'[p]] = NoDoc
            /\ (pc[p] = "open" /\ pc'[p] = "write")
                  => /\ ~files[FilenameTmp(uid[p])].present
                     /\ ~files[Filename(uid[p])].present
            /\ (pc[p] = "rename" /\ pc'[p] = "lockopen")
                  => ~files[Filename(uid[p])].present]_vars

\* C10 witness: two persist_event calls are under way at once, each with its
\* own complete temporary file.
C10_Witness ==
    \E p, q \in Procs :
        /\ p # q /\ pc[p] = "rename" /\ pc[q] = "rename"
        /\ files[FilenameTmp(uid[p])].present
        /\ files[FilenameTmp(uid[q])].present

\* C11: a persist_event whose open, write, flush or rename failed is not
\* retried: the process is on its way out with a non-zero status, it never
\* gets to lock_and_flush (it neither holds nor requests the lock), and no file
\* with the permanent suffix exists for its event.
C11_StoreFailureIsFatal ==
    /\ [](\A p \in Procs :
            raised[p] = "store"
                => /\ pc[p] = "exit"
                   /\ ExitStatus(raised[p]) # 0
                   /\ p \notin lock
                   /\ ~files[Filename(uid[p])].present)
    /\ [][\A p \in Procs :
            (pc[p] = "exit" /\ raised[p] = "store")
                => pc'[p] \in {"exit", "idle"}]_vars

\* C11 witness: the rename of a completely written temporary file has failed
\* and the process is about to exit.
C11_Witness ==
    \E p \in Procs :
        /\ pc[p] = "exit" /\ raised[p] = "store"
        /\ files[FilenameTmp(uid[p])].present
        /\ files[FilenameTmp(uid[p])].content = persisted[uid[p]]

\* C12 (as stated): a process that ends because persist_event failed has left
\* nothing of its event in the directory: neither a temporary file nor a file
\* with the permanent suffix.
C12_NothingLeftAfterFatalExit ==
    \A p \in Procs :
        (pc[p] = "exit" /\ raised[p] = "store")
            => /\ ~files[FilenameTmp(uid[p])].present
               /\ ~files[Filename(uid[p])].present

C14_EmptyFlushIsNoOp ==
    /\ [](\A p \in Procs :
            (pc[p] \in {"read", "dispose", "close"} /\ raised[p] # "flock"
                /\ events[p] = <<>>)
                => /\ pc[p] # "dispose"
                   /\ sent[p] = <<>>
                   /\ raised[p] = "none")
    /\ [][\A p \in Procs :
            (pc[p] = "list" /\ pc'[p] = "read"
                /\ \A n \in listdir : n.suffix # PermanentSuffix)
                => events'[p] = <<>> /\ files' = files]_vars
    /\ [][\A p \in Procs :
            (pc[p] = "read" /\ events[p] = <<>> /\ pc'[p] # "read")
                => pc'[p] \in {"close", "idle"} /\ files' = files]_vars

\* C14 witness: a flush has returned from a directory that holds a temporary
\* file and the lock file but no event file.
C14_Witness ==
    \E p \in Procs, u \in Uids :
        /\ pc[p] = "close" /\ raised[p] = "none" /\ events[p] = <<>>
        /\ files[FilenameTmp(u)].present
        /\ files[LockFilename].present
        /\ \A n \in listdir : n.suffix # PermanentSuffix

\* the severity the outcome table gives an outcome
Severity(o) ==
    IF o.kind = "response" THEN "info"
    ELSE IF o.kind = "HTTPError" /\ 400 <= o.code /\ o.code <= 499 THEN "warning"
    ELSE "error"

\* the severity of an entry of the logging facility, by where log() put it
SeverityOf(entry, level) ==
    IF entry \in {"LOG_ERR", "stderr"} THEN "error"
    ELSE IF entry = "LOG_WARNING" \/ (entry = "stdout" /\ level = "WARN") THEN "warning"
    ELSE "info"

\* C15 (as stated): the clause that handles the outcome of a transmission
\* calls log(), and the entry has the severity of the outcome table: info for
\* 2xx, warning for 429 and the other 4xx, error for everything else, 5xx and
\* other status codes included.
C15_EveryOutcomeLogged ==
    \A p \in Procs : \A docker_mode \in BOOLEAN :
        pc[p] = "dispose"
            => /\ LogLevel(outcome[p]) # NoLog
               /\ SeverityOf(log(LogLevel(outcome[p]), docker_mode),
                             LogLevel(outcome[p])) = Severity(outcome[p])

\* C16: one flush transmits no file twice: the names it has transmitted are
\* pairwise different and its position in the listing never goes back, so a
\* file it kept is left for a later flush.
C16_NoRetryWithinFlush ==
    /\ [](\A p \in Procs : \A i, j \in 1..Len(sent[p]) :
            i # j => sent[p][i].name # sent[p][j].name)
    /\ [][\A p \in Procs :
            (InFlush(p) /\ InFlush(p)' /\ pc[p] # "list")
                => /\ idx'[p] >= idx[p]
                   /\ (pc[p] = "dispose" /\ pc'[p] = "read")
                          => idx'[p] = idx[p] + 1]_vars

\* C16 witness: a flush has returned and a file it transmitted, once, is
\* still in the directory.
C16_Witness ==
    \E p \in Procs :
        /\ pc[p] = "close" /\ raised[p] = "none"
        /\ \E i \in 1..Len(sent[p]) : files[sent[p][i].name].present

\* C17 (as stated): decoding the document create_xml made gives back exactly
\* the API key and, entry by entry, the keys and values of the payload.
C17_CreateXmlRoundTrips ==
    xml_back # NotDecoded
        => xml_back = [state |-> "ok", apikey |-> xml_in.apikey,
                       payload |-> xml_in.payload]

\* C19 (as stated): a save-mode invocation that is about to exit with status
\* 0 has had its event transmitted at least once, by its own flush or by the
\* flush of another process.
C19_OwnEventAttempted ==
    \A p \in Procs :
        (pc[p] = "exit" /\ ExitStatus(raised[p]) = 0 /\ uid[p] # 0)
            => uid[p] \in attempted

\* C19 (amended): when lock_and_flush returns in a save-mode invocation (which
\* then exits with status 0), its event has been transmitted at least once, by
\* its own flush or by the flush of another process, unless its own flush
\* listed the event's file and skipped it because it could not be read.
C19_OwnEventAttemptedOrUnreadable ==
    [][\A p \in Procs :
          (pc[p] = "close" /\ pc'[p] = "exit" /\ ExitStatus(raised'[p]) = 0
              /\ uid[p] # 0)
              => \/ uid[p] \in attempted
                 \/ Filename(uid[p]) \in ListedNames(p) \ SentNames(p)]_vars

\* C19 witness: a save-mode invocation waits for the lock after its event,
\* published during another process's flush, was transmitted by a flush of
\* another process.
C19_Witness ==
    \E p \in Procs :
        /\ pc[p] = "flock" /\ uid[p] # 0
        /\ uid[p] \in attempted

\* C20: as long as no process has ended (killed, or by an exception) between
\* a 2xx answer and the deletion of the file, a file whose transmission got a
\* 2xx answer is there only while the flush that got the answer is about to
\* delete it, and no flush, the same or another, transmits it again.
C20_NoDuplicateAfterSuccess ==
    /\ [](\A n \in acked : \E p \in Procs :
            /\ pc[p] = "dispose"
            /\ events[p][idx[p]] = n
            /\ outcome[p].kind = "response")
    /\ [][\A p \in Procs :
            (pc[p] = "read" /\ pc'[p] = "dispose")
                => events[p][idx[p]] \notin acked]_vars

\* C20 witness: a flush has a 2xx answer for a file it has not deleted yet
\* while another invocation, whose event file is in the directory too, waits
\* for the lock.
C20_Witness ==
    \E p, q \in Procs :
        /\ p # q
        /\ pc[p] = "dispose" /\ outcome[p].kind = "response"
        /\ events[p][idx[p]] \in acked
        /\ pc[q] = "flock" /\ uid[q] # 0
        /\ files[Filename(uid[q])].present

\* C18: when flush keeps being invoked and the service keeps answering with
\* 2xx or a 4xx other than 429, every published event file is eventually
\* removed from the directory.
C18_PublishedEventuallyRemoved ==
    \A u \in Uids :
        files[Filename(u)].present ~> ~files[Filename(u)].present

\* C18 witness: a file that a flush kept after a transient failure is
\* transmitted again by a later flush and gets a 2xx answer.
C18_Witness ==
    \E p \in Procs :
        /\ pc[p] = "dispose"
        /\ events[p][idx[p]] \in retained
        /\ outcome[p].kind = "response"
        /\ runs = MaxRuns

====
